---- MODULE Spec2Model ----
(***************************************************************************)
(* Model of src/src/components/ShortestPath.tsx: the React component that  *)
(* holds a grid of nodes, lets the user place start/end/walls with the     *)
(* pointer, runs Dijkstra or A* on a working copy of the grid and replays  *)
(* the result onto the live grid one timer tick at a time.                 *)
(*                                                                         *)
(* A cell is the pair <<x, y>>.  A grid is a function from cells to node   *)
(* records.  The source's 50 x 30 grid is scaled down to GRID_COLS x       *)
(* GRID_ROWS; the default start and end keep their relative places (first  *)
(* and last column of the middle row).                                     *)
(***************************************************************************)
EXTENDS Integers, Sequences, FiniteSets

\* ------------------------------------------------------------- bounds
GRID_COLS == 4
GRID_ROWS == 2
\* how many times handleCanvasClick may rewrite the grid in one behaviour
MaxClicks == 2
\* how many runs may be started in one behaviour
MaxRuns == 2

\* ---------------------------------------------------------- constants
\* gScore / fScore of a node nobody reached (JavaScript's Infinity): larger
\* than every finite score of the model
Infinity == 999

\* a null reference (startNode, endNode, parent): the empty tuple, which is
\* no cell
NULL == <<>>

Cells == (0 .. GRID_COLS - 1) \X (0 .. GRID_ROWS - 1)

Tools == {"start", "end", "wall"}

Abs(n) == IF n < 0 THEN -n ELSE n

\* the node the grid is filled with by the initialising effect
NewNode(isStart, isEnd) ==
    [isWall |-> FALSE, isStart |-> isStart, isEnd |-> isEnd,
     isVisited |-> FALSE, isPath |-> FALSE,
     gScore |-> Infinity, hScore |-> 0, fScore |-> Infinity, parent |-> NULL]

\* x === 5 && y === 15 of 50 x 30: first column band, middle row
DefaultStart == <<0, GRID_ROWS \div 2>>
\* x === 44 && y === 15 of 50 x 30: last column band, middle row
DefaultEnd == <<GRID_COLS - 1, GRID_ROWS \div 2>>

InitialGrid == [c \in Cells |-> NewNode(c = DefaultStart, c = DefaultEnd)]

InitialStats == [algorithm |-> "---", nodesExplored |-> 0, pathLength |-> 0]

\* ------------------------------------------------ neighbours, heuristic
\* a sign slip in the heuristic
manhattanDistanceNegated(a, b) == -(Abs(a[1] - b[1]) + Abs(a[2] - b[2]))

\* an inconsistent heuristic: the Manhattan distance, and 9 more on the
\* one cell (1, 0)
manhattanDistancePlusPenalty(a, b) ==
    Abs(a[1] - b[1]) + Abs(a[2] - b[2])
       + (IF a[1] = 1 /\ a[2] = 0 THEN 9 ELSE 0)

manhattanDistance(a, b) == Abs(a[1] - b[1]) + Abs(a[2] - b[2])

\* the neighbours before the wall filter, in the order up, down, left, right
NeighborCandidates(c) ==
    (IF c[2] > 0 THEN << <<c[1], c[2] - 1>> >> ELSE <<>>)
    \o (IF c[2] < GRID_ROWS - 1 THEN << <<c[1], c[2] + 1>> >> ELSE <<>>)
    \o (IF c[1] > 0 THEN << <<c[1] - 1, c[2]>> >> ELSE <<>>)
    \o (IF c[1] < GRID_COLS - 1 THEN << <<c[1] + 1, c[2]>> >> ELSE <<>>)

\* getNeighbors without its wall filter
getNeighborsNoFilter(c, gridData) == NeighborCandidates(c)

getNeighbors(c, gridData) ==
    LET notWall(n) == ~gridData[n].isWall
    IN  SelectSeq(NeighborCandidates(c), notWall)

RECURSIVE Buckets(_, _, _)
\* the elements of seq whose key is in keys: by ascending key, and in the
\* order of seq among those of one key
Buckets(seq, key, keys) ==
    IF keys = {} THEN <<>>
    ELSE LET least == CHOOSE k \in keys : \A k2 \in keys : k <= k2
             hasLeast(x) == key[x] = least
         IN  SelectSeq(seq, hasLeast) \o Buckets(seq, key, keys \ {least})

\* Array.prototype.sort with the comparator a.key - b.key: a stable sort by
\* key (Infinity - Infinity is NaN, which sort takes as 0, a tie)
StableSort(seq, key) ==
    Buckets(seq, key, {key[seq[k]] : k \in 1 .. Len(seq)})

\* ------------------------------------------------- path reconstruction
RECURSIVE PathFrom(_, _, _)
\* the loop of reconstructPath: unshift current, go to its parent
PathFrom(current, gridData, path) ==
    IF current = NULL THEN path
    ELSE PathFrom(gridData[current].parent, gridData, <<current>> \o path)

RECURSIVE PathFromPush(_, _, _)
\* reconstructPath with push in place of unshift
PathFromPush(current, gridData, path) ==
    IF current = NULL THEN path
    ELSE PathFromPush(gridData[current].parent, gridData, Append(path, current))

reconstructPathReversed(endCell, gridData) == PathFromPush(endCell, gridData, <<>>)

reconstructPath(endCell, gridData) == PathFrom(endCell, gridData, <<>>)

\* ------------------------------------------------------------ Dijkstra
\* a copy that resets the flags and the parent and keeps the scores
DijkstraCopyKeepsScores(g) ==
    [c \in Cells |-> [g[c] EXCEPT !.isVisited = FALSE, !.isPath = FALSE,
                                  !.parent = NULL]]

\* grid.map(...) of runDijkstra: a copy with the flags and scores of a fresh
\* search (hScore is not among the fields it resets)
DijkstraCopy(g) ==
    [c \in Cells |-> [g[c] EXCEPT !.isVisited = FALSE, !.isPath = FALSE,
                                  !.gScore = Infinity, !.fScore = Infinity,
                                  !.parent = NULL]]

\* newGrid.flat(): row after row, each row from x = 0
FlatCells ==
    [k \in 1 .. GRID_COLS * GRID_ROWS |->
        <<(k - 1) % GRID_COLS, (k - 1) \div GRID_COLS>>]

\* a sort key under which every two cells tie
GScoresAllTied(gridData) == [c \in Cells |-> 0]

GScores(gridData) == [c \in Cells |-> gridData[c].gScore]

FScores(gridData) == [c \in Cells |-> gridData[c].fScore]

RECURSIVE RelaxDijkstra(_, _, _)
\* the for loop over the neighbours of current
RelaxDijkstra(gridData, current, neighbors) ==
    IF neighbors = <<>> THEN gridData
    ELSE LET neighbor == Head(neighbors)
             tentativeGScore == gridData[current].gScore + 1
             relaxed ==
                 IF tentativeGScore < gridData[neighbor].gScore
                 THEN [gridData EXCEPT ![neighbor].gScore = tentativeGScore,
                                       ![neighbor].fScore = tentativeGScore,
                                       ![neighbor].parent = current]
                 ELSE gridData
         IN  RelaxDijkstra(relaxed, current, Tail(neighbors))

\* the state of runDijkstra before its while loop
DijkstraStart(g, startCell) ==
    [gridData |-> [DijkstraCopy(g) EXCEPT ![startCell].gScore = 0,
                                          ![startCell].fScore = 0],
     unvisited |-> FlatCells,
     visitedInOrder |-> <<>>,
     status |-> "running",
     current |-> NULL]

\* the loop body of runDijkstra without its gScore === Infinity exit
DijkstraIterNoInfinityExit(s) ==
    IF Len(s.unvisited) = 0 THEN [s EXCEPT !.status = "nopath"]
    ELSE LET sorted == StableSort(s.unvisited, GScores(s.gridData))
             current == Head(sorted)
             rest == Tail(sorted)
         IN  IF s.gridData[current].isEnd
             THEN [s EXCEPT !.unvisited = rest, !.status = "found",
                            !.current = current]
             ELSE [s EXCEPT
                     !.unvisited = rest,
                     !.visitedInOrder = Append(s.visitedInOrder, current),
                     !.current = current,
                     !.gridData = RelaxDijkstra(s.gridData, current,
                                      getNeighbors(current, s.gridData))]

\* one pass of the while loop of runDijkstra
DijkstraIter(s) ==
    IF Len(s.unvisited) = 0 THEN [s EXCEPT !.status = "nopath"]
    ELSE LET sorted == StableSort(s.unvisited, GScores(s.gridData))
             current == Head(sorted)
             rest == Tail(sorted)
         IN  IF s.gridData[current].gScore = Infinity
             THEN [s EXCEPT !.unvisited = rest, !.status = "nopath"]
             ELSE IF s.gridData[current].isEnd
             THEN [s EXCEPT !.unvisited = rest, !.status = "found",
                            !.current = current]
             ELSE [s EXCEPT
                     !.unvisited = rest,
                     !.visitedInOrder = Append(s.visitedInOrder, current),
                     !.current = current,
                     !.gridData = RelaxDijkstra(s.gridData, current,
                                      getNeighbors(current, s.gridData))]

RECURSIVE DijkstraLoop(_)
DijkstraLoop(s) ==
    IF s.status # "running" THEN s ELSE DijkstraLoop(DijkstraIter(s))

RECURSIVE DijkstraPasses(_)
\* the states of runDijkstra's while loop: before its first pass, after each
\* pass, up to the one that leaves the loop
DijkstraPasses(s) ==
    IF s.status # "running" THEN <<s>>
    ELSE <<s>> \o DijkstraPasses(DijkstraIter(s))

\* ------------------------------------------------------------------ A*
\* grid.map(...) of runAStar
AStarCopy(g) ==
    [c \in Cells |-> [g[c] EXCEPT !.isVisited = FALSE, !.isPath = FALSE,
                                  !.gScore = Infinity, !.hScore = 0,
                                  !.fScore = Infinity, !.parent = NULL]]

InSeq(x, seq) == \E i \in 1 .. Len(seq) : seq[i] = x

RECURSIVE RelaxAStar(_, _, _, _)
\* the for loop over the neighbours of current; s carries gridData and openSet
RelaxAStar(s, current, endCell, neighbors) ==
    IF neighbors = <<>> THEN s
    ELSE LET neighbor == Head(neighbors)
             tentativeGScore == s.gridData[current].gScore + 1
             inOpen == InSeq(neighbor, s.openSet)
             skip == \/ neighbor \in s.closedSet
                     \/ inOpen /\ tentativeGScore >= s.gridData[neighbor].gScore
             hScore == manhattanDistance(neighbor, endCell)
             next ==
                 IF skip THEN s
                 ELSE [s EXCEPT
                         !.openSet = IF inOpen THEN @ ELSE Append(@, neighbor),
                         !.gridData = [@ EXCEPT
                             ![neighbor].parent = current,
                             ![neighbor].gScore = tentativeGScore,
                             ![neighbor].hScore = hScore,
                             ![neighbor].fScore = tentativeGScore + hScore]]
         IN  RelaxAStar(next, current, endCell, Tail(neighbors))

\* the state of runAStar before its while loop
AStarStart(g, startCell, endCell) ==
    LET h == manhattanDistance(startCell, endCell)
    IN  [gridData |-> [AStarCopy(g) EXCEPT ![startCell].gScore = 0,
                                           ![startCell].hScore = h,
                                           ![startCell].fScore = h],
         openSet |-> <<startCell>>,
         closedSet |-> {},
         visitedInOrder |-> <<>>,
         endCell |-> endCell,
         status |-> "running",
         current |-> NULL]

\* one pass of the while loop of runAStar
AStarIter(s) ==
    IF Len(s.openSet) = 0 THEN [s EXCEPT !.status = "nopath"]
    ELSE LET sorted == StableSort(s.openSet, FScores(s.gridData))
             current == Head(sorted)
             popped == [s EXCEPT !.openSet = Tail(sorted), !.current = current]
         IN  IF s.gridData[current].isEnd
             THEN [popped EXCEPT !.status = "found"]
             ELSE RelaxAStar(
                     [popped EXCEPT
                         !.closedSet = @ \cup {current},
                         !.visitedInOrder = Append(@, current)],
                     current, s.endCell, getNeighbors(current, s.gridData))

RECURSIVE AStarLoop(_)
AStarLoop(s) ==
    IF s.status # "running" THEN s ELSE AStarLoop(AStarIter(s))

RECURSIVE AStarPasses(_)
\* the states of runAStar's while loop: before its first pass, after each
\* pass, up to the one that leaves the loop
AStarPasses(s) ==
    IF s.status # "running" THEN <<s>>
    ELSE <<s>> \o AStarPasses(AStarIter(s))

\* what a search hands to its caller: the outcome, the visited-order list,
\* the path (when found) and the working grid
SearchResult(s) ==
    [status |-> s.status,
     visited |-> s.visitedInOrder,
     path |-> IF s.status = "found"
              THEN reconstructPath(s.current, s.gridData) ELSE <<>>,
     gridData |-> s.gridData]

DijkstraSearch(g, startCell, endCell) ==
    SearchResult(DijkstraLoop(DijkstraStart(g, startCell)))

AStarSearch(g, startCell, endCell) ==
    SearchResult(AStarLoop(AStarStart(g, startCell, endCell)))

Search(algorithmName, g, startCell, endCell) ==
    IF algorithmName = "Dijkstra" THEN DijkstraSearch(g, startCell, endCell)
    ELSE AStarSearch(g, startCell, endCell)

\* -------------------------------------------------------------- state
VARIABLES
    grid,           \* useState grid: the live grid the canvas paints
    selectedTool,   \* useState selectedTool
    isDrawing,      \* useState isDrawing
    startNode,      \* useState startNode: a cell, or NULL
    endNode,        \* useState endNode: a cell, or NULL
    isAnimating,    \* useState isAnimating: the busy flag
    stats,          \* useState stats
    toast,          \* what the last handler or timer step told the user
    pointer,        \* the mouse over the canvas: button up, button down,
                    \* or released over a cell with its click due
    awaiting,       \* the loop of animateAlgorithm whose timer is pending
    i,              \* the index of that loop
    visited,        \* animateAlgorithm's parameter visited
    path,           \* animateAlgorithm's parameter path
    gridData,       \* animateAlgorithm's parameter gridData
    algorithmName,  \* animateAlgorithm's parameter algorithmName
    clicks,         \* grid rewrites by handleCanvasClick so far
    runs            \* runs started so far

vars == <<grid, selectedTool, isDrawing, startNode, endNode, isAnimating,
          stats, toast, pointer, awaiting, i, visited, path, gridData,
          algorithmName, clicks, runs>>

reactState == <<grid, selectedTool, isDrawing, startNode, endNode,
                isAnimating, stats>>

animation == <<awaiting, i, visited, path, gridData, algorithmName>>

NoToast == "none"
MissingEndpoints == "Please place both start and end nodes!"
NoPathFound == "No path found!"
Completed(name) == IF name = "Dijkstra" THEN "Dijkstra completed!"
                   ELSE "A* completed!"

PointerUp == [phase |-> "up", at |-> NULL]

Init ==
    /\ grid = InitialGrid
    /\ selectedTool = "start"
    /\ isDrawing = FALSE
    /\ startNode = DefaultStart
    /\ endNode = DefaultEnd
    /\ isAnimating = FALSE
    /\ stats = InitialStats
    /\ toast = NoToast
    /\ pointer = PointerUp
    /\ awaiting = "none"
    /\ i = 0
    /\ visited = <<>>
    /\ path = <<>>
    /\ gridData = <<>>
    /\ algorithmName = "---"
    /\ clicks = 0
    /\ runs = 0

\* ------------------------------------------------------ pointer edits
InBounds(c) == c[1] >= 0 /\ c[1] < GRID_COLS /\ c[2] >= 0 /\ c[2] < GRID_ROWS

\* the start tool without "remove previous start"
PlaceStartKeepsPrevious(g, c) ==
    [g EXCEPT ![c].isStart = TRUE, ![c].isWall = FALSE]

\* the grid handleCanvasClick sets for a click on cell c with the start tool
PlaceStart(g, c) ==
    LET cleared == IF startNode # NULL
                   THEN [g EXCEPT ![startNode].isStart = FALSE] ELSE g
    IN  [cleared EXCEPT ![c].isStart = TRUE, ![c].isWall = FALSE]

\* ... with the end tool
PlaceEnd(g, c) ==
    LET cleared == IF endNode # NULL
                   THEN [g EXCEPT ![endNode].isEnd = FALSE] ELSE g
    IN  [cleared EXCEPT ![c].isEnd = TRUE, ![c].isWall = FALSE]

\* the wall tool without its isStart / isEnd test
ToggleWallAnyCell(g, c) == [g EXCEPT ![c].isWall = ~g[c].isWall]

\* ... with the wall tool
ToggleWall(g, c) ==
    IF ~g[c].isStart /\ ~g[c].isEnd
    THEN [g EXCEPT ![c].isWall = ~g[c].isWall] ELSE g

\* handleCanvasClick without its isAnimating return
handleCanvasClickWhileBusy(c) ==
    IF ~InBounds(c)
    THEN UNCHANGED <<grid, startNode, endNode, clicks>>
    ELSE /\ clicks < MaxClicks
         /\ clicks' = clicks + 1
         /\ grid' = CASE selectedTool = "start" -> PlaceStart(grid, c)
                      [] selectedTool = "end" -> PlaceEnd(grid, c)
                      [] OTHER -> ToggleWall(grid, c)
         /\ startNode' = IF selectedTool = "start" THEN c ELSE startNode
         /\ endNode' = IF selectedTool = "end" THEN c ELSE endNode

\* handleCanvasClick on the cell c under the pointer
handleCanvasClick(c) ==
    IF isAnimating \/ ~InBounds(c)
    THEN UNCHANGED <<grid, startNode, endNode, clicks>>
    ELSE /\ clicks < MaxClicks
         /\ clicks' = clicks + 1
         /\ grid' = CASE selectedTool = "start" -> PlaceStart(grid, c)
                      [] selectedTool = "end" -> PlaceEnd(grid, c)
                      [] OTHER -> ToggleWall(grid, c)
         /\ startNode' = IF selectedTool = "start" THEN c ELSE startNode
         /\ endNode' = IF selectedTool = "end" THEN c ELSE endNode

\* onMouseDown
handleMouseDown(c) ==
    /\ pointer.phase = "up"
    /\ pointer' = [phase |-> "down", at |-> NULL]
    /\ IF selectedTool = "wall"
       THEN isDrawing' = TRUE /\ handleCanvasClick(c)
       ELSE UNCHANGED <<isDrawing, grid, startNode, endNode, clicks>>
    /\ toast' = NoToast
    /\ UNCHANGED <<selectedTool, isAnimating, stats, animation, runs>>

\* onMouseMove while the button is held (isDrawing is false whenever it is
\* not, and the handler then does nothing)
handleMouseMove(c) ==
    /\ pointer.phase = "down"
    /\ IF isDrawing /\ selectedTool = "wall"
       THEN handleCanvasClick(c)
       ELSE UNCHANGED <<grid, startNode, endNode, clicks>>
    /\ toast' = NoToast
    /\ UNCHANGED <<selectedTool, isDrawing, isAnimating, stats, pointer,
                   animation, runs>>

\* onMouseUp over cell c: the browser follows it with a click at the same
\* place
handleMouseUp(c) ==
    /\ pointer.phase = "down"
    /\ pointer' = [phase |-> "click", at |-> c]
    /\ isDrawing' = FALSE
    /\ toast' = NoToast
    /\ UNCHANGED <<grid, selectedTool, startNode, endNode, isAnimating, stats,
                   animation, clicks, runs>>

\* onMouseLeave = handleMouseUp, with no click to follow
handleMouseLeave ==
    /\ pointer.phase = "down"
    /\ pointer' = PointerUp
    /\ isDrawing' = FALSE
    /\ toast' = NoToast
    /\ UNCHANGED <<grid, selectedTool, startNode, endNode, isAnimating, stats,
                   animation, clicks, runs>>

\* onClick = handleCanvasClick, at the place the button was released
handleClick ==
    /\ pointer.phase = "click"
    /\ pointer' = PointerUp
    /\ handleCanvasClick(pointer.at)
    /\ toast' = NoToast
    /\ UNCHANGED <<selectedTool, isDrawing, isAnimating, stats, animation, runs>>

\* the three tool buttons (never disabled)
SelectTool(t) ==
    /\ pointer.phase = "up"
    /\ selectedTool' = t
    /\ toast' = NoToast
    /\ UNCHANGED <<grid, isDrawing, startNode, endNode, isAnimating, stats,
                   pointer, animation, clicks, runs>>

\* --------------------------------------------------------------- runs
\* the early return placed after setIsAnimating(true)
RunMissingEndpointsStaysBusy ==
    /\ toast' = MissingEndpoints
    /\ isAnimating' = TRUE
    /\ UNCHANGED <<grid, stats, animation>>

\* the early return of a run without a start or an end
RunMissingEndpoints ==
    /\ toast' = MissingEndpoints
    /\ UNCHANGED <<grid, isAnimating, stats, animation>>

\* a failed run that shows its working copy: setGrid(newGrid)
RunNoPathShowsCopy(r) ==
    /\ isAnimating' = FALSE
    /\ toast' = NoPathFound
    /\ grid' = r.gridData
    /\ UNCHANGED <<stats, animation>>

\* the end of a run whose loop left without reaching the end node:
\* setIsAnimating(true) ... setIsAnimating(false), nothing else set
RunNoPath(r) ==
    /\ isAnimating' = FALSE
    /\ toast' = NoPathFound
    /\ UNCHANGED <<grid, stats, animation>>

\* a run that sets the stats before it enters animateAlgorithm
RunFoundSetsStats(name, r) ==
    /\ isAnimating' = TRUE
    /\ visited' = r.visited
    /\ path' = r.path
    /\ gridData' = r.gridData
    /\ algorithmName' = name
    /\ i' = 0
    /\ awaiting' = IF Len(r.visited) > 0 THEN "visited" ELSE "path"
    /\ toast' = NoToast
    /\ stats' = [algorithm |-> name, nodesExplored |-> Len(r.visited),
                 pathLength |-> Len(r.path)]
    /\ UNCHANGED grid

\* a run that found the end node: animateAlgorithm is entered and suspends
\* at its first timer (path is never empty, so there is one)
RunFound(name, r) ==
    /\ isAnimating' = TRUE
    /\ visited' = r.visited
    /\ path' = r.path
    /\ gridData' = r.gridData
    /\ algorithmName' = name
    /\ i' = 0
    /\ awaiting' = IF Len(r.visited) > 0 THEN "visited" ELSE "path"
    /\ toast' = NoToast
    /\ UNCHANGED <<grid, stats>>

\* runDijkstra / runAStar up to their first await.  The Run buttons are
\* disabled while isAnimating; a button is clicked with the canvas button up.
Run(name) ==
    /\ ~isAnimating
    /\ pointer.phase = "up"
    /\ IF startNode = NULL \/ endNode = NULL
       THEN RunMissingEndpoints /\ UNCHANGED runs
       ELSE LET r == Search(name, grid, startNode, endNode)
            IN  /\ runs < MaxRuns
                /\ runs' = runs + 1
                /\ IF r.status = "found" THEN RunFound(name, r)
                   ELSE RunNoPath(r)
    /\ UNCHANGED <<selectedTool, isDrawing, startNode, endNode, pointer,
                   clicks>>

runDijkstra == Run("Dijkstra")

runAStar == Run("A*")

\* the body of the first loop of animateAlgorithm for node
FlagVisited(gd, node) ==
    IF ~gd[node].isStart /\ ~gd[node].isEnd
    THEN [gd EXCEPT ![node].isVisited = TRUE] ELSE gd

\* the second loop without its isStart / isEnd test
FlagPathAnyNode(gd, node) == [gd EXCEPT ![node].isPath = TRUE]

\* the body of the second loop of animateAlgorithm for node
FlagPath(gd, node) ==
    IF ~gd[node].isStart /\ ~gd[node].isEnd
    THEN [gd EXCEPT ![node].isPath = TRUE] ELSE gd

\* the first loop walking the list from its end
VisitedNodeFromEnd == visited[Len(visited) - i]

\* const node = visited[i] (the model's sequences start at 1)
VisitedNode == visited[i + 1]

\* const node = path[i]
PathNode == path[i + 1]

\* a timer of the first loop fires: one visited node, then the next await
\* (of this loop, or of the path loop once the list is through)
AnimateVisited ==
    /\ awaiting = "visited"
    /\ pointer.phase # "click"
    /\ gridData' = FlagVisited(gridData, VisitedNode)
    /\ grid' = gridData'
    /\ IF i + 1 < Len(visited)
       THEN i' = i + 1 /\ awaiting' = "visited"
       ELSE i' = 0 /\ awaiting' = "path"
    /\ toast' = NoToast
    /\ UNCHANGED <<selectedTool, isDrawing, startNode, endNode, isAnimating,
                   stats, pointer, visited, path, algorithmName, clicks, runs>>

\* the second loop without setIsAnimating(false) after its last node
AnimatePathStaysBusy ==
    /\ awaiting = "path"
    /\ pointer.phase # "click"
    /\ grid' = FlagPath(gridData, PathNode)
    /\ IF i + 1 < Len(path)
       THEN /\ i' = i + 1
            /\ gridData' = grid'
            /\ toast' = NoToast
            /\ UNCHANGED <<awaiting, visited, path, algorithmName, stats>>
       ELSE /\ stats' = [algorithm |-> algorithmName,
                         nodesExplored |-> Len(visited),
                         pathLength |-> Len(path)]
            /\ toast' = Completed(algorithmName)
            /\ awaiting' = "none"
            /\ i' = 0
            /\ visited' = <<>>
            /\ path' = <<>>
            /\ gridData' = <<>>
            /\ algorithmName' = "---"
    /\ UNCHANGED <<selectedTool, isDrawing, startNode, endNode, isAnimating,
                   pointer, clicks, runs>>

\* a timer of the second loop fires: one path node, then the next await or,
\* after the last node, setStats, setIsAnimating(false) and the success toast
AnimatePath ==
    /\ awaiting = "path"
    /\ pointer.phase # "click"
    /\ grid' = FlagPath(gridData, PathNode)
    /\ IF i + 1 < Len(path)
       THEN /\ i' = i + 1
            /\ gridData' = grid'
            /\ toast' = NoToast
            /\ UNCHANGED <<awaiting, visited, path, algorithmName,
                           isAnimating, stats>>
       ELSE /\ stats' = [algorithm |-> algorithmName,
                         nodesExplored |-> Len(visited),
                         pathLength |-> Len(path)]
            /\ isAnimating' = FALSE
            /\ toast' = Completed(algorithmName)
            /\ awaiting' = "none"
            /\ i' = 0
            /\ visited' = <<>>
            /\ path' = <<>>
            /\ gridData' = <<>>
            /\ algorithmName' = "---"
    /\ UNCHANGED <<selectedTool, isDrawing, startNode, endNode, pointer,
                   clicks, runs>>

\* ------------------------------------------------------ reset, clear
\* a reset of the scores and the parent that keeps the two flags
ResetNodeKeepsFlags(node) ==
    [node EXCEPT !.gScore = Infinity, !.hScore = 0, !.fScore = Infinity,
                 !.parent = NULL]

ResetNode(node) ==
    [node EXCEPT !.isVisited = FALSE, !.isPath = FALSE, !.gScore = Infinity,
                 !.hScore = 0, !.fScore = Infinity, !.parent = NULL]

\* the Reset Grid button (disabled while isAnimating)
resetGrid ==
    /\ ~isAnimating
    /\ pointer.phase = "up"
    /\ grid' = [c \in Cells |-> ResetNode(grid[c])]
    /\ stats' = InitialStats
    /\ toast' = NoToast
    /\ UNCHANGED <<selectedTool, isDrawing, startNode, endNode, isAnimating,
                   pointer, animation, clicks, runs>>

\* Clear All without setStartNode(null) and setEndNode(null)
clearAllKeepsReferences ==
    /\ ~isAnimating
    /\ pointer.phase = "up"
    /\ grid' = [c \in Cells |->
                  [ResetNode(grid[c]) EXCEPT !.isWall = FALSE,
                                             !.isStart = FALSE,
                                             !.isEnd = FALSE]]
    /\ stats' = InitialStats
    /\ toast' = NoToast
    /\ UNCHANGED <<selectedTool, isDrawing, startNode, endNode, isAnimating,
                   pointer, animation, clicks, runs>>

\* the Clear All button (disabled while isAnimating)
clearAll ==
    /\ ~isAnimating
    /\ pointer.phase = "up"
    /\ grid' = [c \in Cells |->
                  [ResetNode(grid[c]) EXCEPT !.isWall = FALSE,
                                             !.isStart = FALSE,
                                             !.isEnd = FALSE]]
    /\ startNode' = NULL
    /\ endNode' = NULL
    /\ stats' = InitialStats
    /\ toast' = NoToast
    /\ UNCHANGED <<selectedTool, isDrawing, isAnimating, pointer, animation,
                   clicks, runs>>

\* --------------------------------------------------- specifications
Next ==
    \/ \E c \in Cells : handleMouseDown(c)
    \/ \E c \in Cells : handleMouseMove(c)
    \/ \E c \in Cells : handleMouseUp(c)
    \/ handleMouseLeave
    \/ handleClick
    \/ \E t \in Tools : SelectTool(t)
    \/ runDijkstra
    \/ runAStar
    \/ AnimateVisited
    \/ AnimatePath
    \/ resetGrid
    \/ clearAll

\* the component from its first render, under any user and timer events
Spec == Init /\ [][Next]_vars

\* the first render with one run left to start (the state Spec is in after
\* a completed run and a reset)
InitOneRun ==
    /\ grid = InitialGrid
    /\ selectedTool = "start"
    /\ isDrawing = FALSE
    /\ startNode = DefaultStart
    /\ endNode = DefaultEnd
    /\ isAnimating = FALSE
    /\ stats = InitialStats
    /\ toast = NoToast
    /\ pointer = PointerUp
    /\ awaiting = "none"
    /\ i = 0
    /\ visited = <<>>
    /\ path = <<>>
    /\ gridData = <<>>
    /\ algorithmName = "---"
    /\ clicks = 0
    /\ runs = MaxRuns - 1

\* the component with its events served: the browser dispatches the click
\* that a release has made due, and the event loop runs a timer of
\* animateAlgorithm whose delay has passed (a click that is due goes first
\* and holds the timer back for that one task only)
SpecFair ==
    /\ InitOneRun
    /\ [][Next]_vars
    /\ WF_vars(handleClick)
    /\ SF_vars(AnimateVisited)
    /\ SF_vars(AnimatePath)

\* a grid the edits can build: start and end anywhere (also on one cell),
\* walls on any of the other cells
EditedGrid(s, e, walls) ==
    [c \in Cells |-> [NewNode(c = s, c = e) EXCEPT !.isWall = c \in walls]]

InitSearch ==
    /\ \E s \in Cells, e \in Cells :
         \E walls \in SUBSET (Cells \ {s, e}) :
            /\ grid = EditedGrid(s, e, walls)
            /\ startNode = s
            /\ endNode = e
    /\ selectedTool = "wall"
    /\ isDrawing = FALSE
    /\ isAnimating = FALSE
    /\ stats = InitialStats
    /\ toast = NoToast
    /\ pointer = PointerUp
    /\ awaiting = "none"
    /\ i = 0
    /\ visited = <<>>
    /\ path = <<>>
    /\ gridData = <<>>
    /\ algorithmName = "---"
    /\ clicks = MaxClicks
    /\ runs = MaxRuns - 1

NextSearch ==
    \/ runDijkstra
    \/ runAStar
    \/ AnimateVisited
    \/ AnimatePath

\* one run of either algorithm on every grid of the model's size
SpecSearch == InitSearch /\ [][NextSearch]_vars

\* ------------------------------------------- reference definitions
\* What the properties below measure the code against; none of it is taken
\* from the search code.

\* two cells that differ by exactly 1 in exactly one coordinate
Adjacent(a, b) ==
    \/ a[1] = b[1] /\ (a[2] = b[2] + 1 \/ b[2] = a[2] + 1)
    \/ a[2] = b[2] /\ (a[1] = b[1] + 1 \/ b[1] = a[1] + 1)

\* the distance of a cell no path reaches
Unreachable == Infinity

RECURSIVE Flood(_, _, _, _, _)
\* breadth-first flooding from the cells at distance d: the distance of
\* target, or Unreachable
Flood(g, frontier, seen, target, d) ==
    IF target \in frontier THEN d
    ELSE IF frontier = {} THEN Unreachable
    ELSE LET next == {n \in Cells \ seen :
                        /\ ~g[n].isWall
                        /\ \E f \in frontier : Adjacent(f, n)}
         IN  Flood(g, next, seen \cup next, target, d + 1)

\* the 4-connected shortest distance from cell s to cell e over non-wall cells
TrueDistance(g, s, e) == Flood(g, {s}, {s}, e, 0)

HasEndpoints == startNode # NULL /\ endNode # NULL

\* the distance the current grid puts between its start and its end
LiveDistance == TrueDistance(grid, startNode, endNode)

IsCompleted == toast \in {Completed("Dijkstra"), Completed("A*")}

Range(seq) == {seq[k] : k \in 1 .. Len(seq)}

\* --------------------------------------------------------- claims

\* C1: whenever the end is reachable, either algorithm produces a path of
\* exactly (true 4-connected shortest distance + 1) cells, and that is the
\* pathLength it reports; a run reports NoPathFound only when the end is
\* unreachable.  So both algorithms report the same pathLength on one grid.
C1_PathLengthIsShortest ==
    /\ awaiting # "none" => Len(path) = LiveDistance + 1
    /\ IsCompleted => stats.pathLength = LiveDistance + 1
    /\ toast = NoPathFound => LiveDistance = Unreachable

\* a completed A* run around a wall: the path is longer than the Manhattan
\* distance and still the shortest
C1_Witness ==
    /\ toast = Completed("A*")
    /\ stats.pathLength = LiveDistance + 1
    /\ LiveDistance > manhattanDistance(startNode, endNode)

\* C2: on one grid A* never visits more cells than Dijkstra: on every grid
\* with both endpoints, for the list of a run in flight, and for the
\* nodesExplored a completed A* run reports.
C2_AStarVisitsNoMore ==
    /\ HasEndpoints =>
          Len(AStarSearch(grid, startNode, endNode).visited)
             <= Len(DijkstraSearch(grid, startNode, endNode).visited)
    /\ awaiting # "none" /\ algorithmName = "A*" =>
          Len(visited) <= Len(DijkstraSearch(grid, startNode, endNode).visited)
    /\ toast = Completed("A*") =>
          stats.nodesExplored
             <= Len(DijkstraSearch(grid, startNode, endNode).visited)

\* a completed A* run that explored strictly fewer cells than Dijkstra does
C2_Witness ==
    /\ toast = Completed("A*")
    /\ stats.nodesExplored
          < Len(DijkstraSearch(grid, startNode, endNode).visited)

\* C3: the path of a successful run starts at the start cell, ends at the
\* end cell, and each two consecutive cells of it are 4-adjacent.
C3_PathShape ==
    awaiting # "none" =>
        /\ Len(path) >= 1
        /\ path[1] = startNode
        /\ path[Len(path)] = endNode
        /\ \A k \in 1 .. Len(path) - 1 : Adjacent(path[k], path[k + 1])

\* a path in flight that turns a corner
C3_Witness ==
    /\ awaiting # "none"
    /\ Len(path) >= 4
    /\ \E k \in 1 .. Len(path) - 2 :
          path[k][1] # path[k + 2][1] /\ path[k][2] # path[k + 2][2]

\* C5: a run on a grid whose end cannot be reached from its start reports
\* NoPathFound and hands no path to the sequencer, whichever the algorithm.
C5_UnreachableFails ==
    [][(runDijkstra \/ runAStar) /\ HasEndpoints
           /\ LiveDistance = Unreachable
        => /\ toast' = NoPathFound
           /\ ~isAnimating'
           /\ awaiting' = "none"
           /\ path' = <<>>]_vars

\* NoPathFound behind a full-height wall column between start and end
C5_Witness ==
    /\ toast = NoPathFound
    /\ \E x \in 0 .. GRID_COLS - 1 :
          /\ startNode[1] < x
          /\ x < endNode[1]
          /\ \A y \in 0 .. GRID_ROWS - 1 : grid[<<x, y>>].isWall

\* the cells the live grid shows as visited, as path
VisitedShown == {c \in Cells : grid[c].isVisited}

PathShown == {c \in Cells : grid[c].isPath}

\* a timer of animateAlgorithm fires in this step
TimerStep == awaiting # "none" /\ (i' # i \/ awaiting' # awaiting)

\* at least one timer of the run in flight has fired
StepEmitted ==
    \/ awaiting = "visited" /\ i >= 1
    \/ awaiting = "path" /\ (Len(visited) >= 1 \/ i >= 1)

\* C4: a run requested without a start or without an end reports
\* MissingEndpoints, and the step that reports it changes neither the grid,
\* the stats, the busy flag nor the sequencer (no animation step is set up).
C4_MissingEndpointsNoEffect ==
    [][/\ ~HasEndpoints /\ (runDijkstra \/ runAStar)
            => toast' = MissingEndpoints
       /\ toast' = MissingEndpoints
            => /\ ~HasEndpoints
               /\ UNCHANGED <<grid, stats, isAnimating, animation,
                              startNode, endNode>>]_vars

\* MissingEndpoints reported with a start placed and no end
C4_Witness ==
    /\ toast = MissingEndpoints
    /\ startNode # NULL
    /\ endNode = NULL
    /\ ~isAnimating

\* C6: the step that reports NoPathFound leaves the live grid (flags of an
\* earlier run included) and the stats as they were and never enters the
\* sequencer.
C6_NoPathLeavesGrid ==
    [][toast' = NoPathFound
        => /\ UNCHANGED <<grid, stats, animation>>
           /\ awaiting' = "none"
           /\ ~isAnimating']_vars

\* NoPathFound on a grid that still shows an earlier run's cells and stats
C6_Witness ==
    /\ toast = NoPathFound
    /\ VisitedShown \cup PathShown # {}
    /\ stats.algorithm # "---"

\* C7: while a run is busy no run starts, no edit changes a wall, a start
\* or an end, every step that is not a timer of the run leaves the grid,
\* the stats, the busy flag and the sequencer as they are, and every timer
\* step belongs to the one run in flight.
C7_BusyRejectsRequests ==
    [][isAnimating
        => /\ awaiting # "none"
           /\ runs' = runs
           /\ clicks' = clicks
           /\ startNode' = startNode
           /\ endNode' = endNode
           /\ \A c \in Cells :
                 /\ grid'[c].isWall = grid[c].isWall
                 /\ grid'[c].isStart = grid[c].isStart
                 /\ grid'[c].isEnd = grid[c].isEnd
           /\ ~TimerStep
                 => UNCHANGED <<grid, stats, isAnimating, animation>>
           /\ TimerStep /\ isAnimating'
                 => UNCHANGED <<visited, path, algorithmName, stats>>]_vars

\* a wall-drawing press handled during the path phase of a run
C7_Witness ==
    /\ isAnimating
    /\ awaiting = "path"
    /\ selectedTool = "wall"
    /\ isDrawing
    /\ pointer.phase = "down"

\* C8: every timer step of the visited phase leaves exactly the first i + 1
\* cells of the visited list shown as visited and no cell shown as path;
\* every timer step of the path phase leaves the whole visited list shown
\* as visited and exactly the first i + 1 cells of the path shown as path
\* (start and end apart, which C9 is about).
C8_AnimationOrder ==
    [][TimerStep
        => LET ends == {startNode, endNode}
               visitedAfter == {c \in Cells : grid'[c].isVisited}
               pathAfter == {c \in Cells : grid'[c].isPath}
           IN  IF awaiting = "visited"
               THEN /\ visitedAfter \ ends
                         = Range(SubSeq(visited, 1, i + 1)) \ ends
                    /\ pathAfter = {}
               ELSE /\ visitedAfter \ ends = Range(visited) \ ends
                    /\ pathAfter \ ends
                         = Range(SubSeq(path, 1, i + 1)) \ ends]_vars

\* two path steps emitted after a visited phase of three cells or more
C8_Witness ==
    /\ awaiting = "path"
    /\ i >= 2
    /\ Cardinality(VisitedShown) >= 3
    /\ Cardinality(PathShown) >= 1

\* C9: once a timer of a run has fired, and when the run has completed, no
\* cell that is the start or the end (by flag or by reference) is shown as
\* visited or as path.
C9_EndpointsNeverFlagged ==
    StepEmitted \/ IsCompleted
        => \A c \in Cells :
              grid[c].isStart \/ grid[c].isEnd \/ c \in {startNode, endNode}
                 => ~grid[c].isVisited /\ ~grid[c].isPath

\* the visited step and the path step of the start cell have both been
\* emitted, and the start cell (first of both lists) shows neither flag
C9_Witness ==
    /\ awaiting = "path"
    /\ i >= 1
    /\ Len(visited) >= 1
    /\ visited[1] = startNode
    /\ path[1] = startNode
    /\ endNode \in Range(path)
    /\ ~grid[startNode].isVisited
    /\ ~grid[startNode].isPath

\* C10: at most one cell is flagged start, at most one is flagged end, and
\* no wall is flagged start or end.
C10_OneStartOneEndNoWall ==
    /\ Cardinality({c \in Cells : grid[c].isStart}) <= 1
    /\ Cardinality({c \in Cells : grid[c].isEnd}) <= 1
    /\ \A c \in Cells : grid[c].isWall => ~grid[c].isStart /\ ~grid[c].isEnd

\* the start has been moved twice, the second time onto the end cell
C10_Witness ==
    /\ clicks = 2
    /\ startNode # NULL
    /\ startNode = endNode
    /\ startNode # DefaultEnd
    /\ Cardinality({c \in Cells : grid[c].isStart}) = 1

\* the wall tool is applied to cell c in this step: by the press, by a move
\* with the button held, or by the click that follows the release
WallToolApplied(c) ==
    /\ selectedTool = "wall"
    /\ ~isAnimating
    /\ \/ handleMouseDown(c)
       \/ isDrawing /\ handleMouseMove(c)
       \/ pointer.at = c /\ handleClick

\* C11: applying the wall tool to the current start cell or the current end
\* cell (by reference or by flag) changes nothing: the cell is still no wall,
\* still the start (the end), and the grid and both references are as they
\* were.
C11_WallToolSparesEndpoints ==
    [][\A c \in Cells :
          /\ WallToolApplied(c)
          /\ c \in {startNode, endNode} \/ grid[c].isStart \/ grid[c].isEnd
          => /\ UNCHANGED <<grid, startNode, endNode>>
             /\ ~grid'[c].isWall
             /\ grid'[c].isStart = (c = startNode)
             /\ grid'[c].isEnd = (c = endNode)]_vars

\* the one press of the wall tool so far fell on the start or on the end:
\* it was handled (clicks counts it) and the grid is the initial one
C11_Witness ==
    /\ selectedTool = "wall"
    /\ isDrawing
    /\ pointer.phase = "down"
    /\ clicks = 1
    /\ runs = 0
    /\ grid = InitialGrid

\* the grid as first built, with the walls, the start and the end of g: no
\* flag, score or parent of any run
LayoutOnly(g) ==
    [c \in Cells |->
        [NewNode(g[c].isStart, g[c].isEnd) EXCEPT !.isWall = g[c].isWall]]

\* the step of a run's last timer
RunCompletes == isAnimating /\ ~isAnimating'

\* the step of runDijkstra / runAStar that hands its lists to the sequencer
RunStarts == ~isAnimating /\ isAnimating'

\* C12: (a) when a run completes, resetting the grid it leaves and running
\* the same algorithm on it finds the same visited list and the same path,
\* cell for cell; (b) the lists of every run are those the algorithm finds
\* on the bare layout (walls, start, end) of the live grid, whatever flags,
\* scores and parents earlier runs left in it.
C12_RunsRepeatable ==
    [][/\ RunCompletes
            => LET again == Search(algorithmName,
                                   [c \in Cells |-> ResetNode(grid'[c])],
                                   startNode, endNode)
               IN  /\ again.status = "found"
                   /\ again.visited = visited
                   /\ again.path = path
       /\ RunStarts
            => LET bare == Search(algorithmName', LayoutOnly(grid),
                                  startNode, endNode)
               IN  /\ bare.status = "found"
                   /\ visited' = bare.visited
                   /\ path' = bare.path]_vars

\* a second run in its path phase, around a wall, after the first run
\* completed and the grid was reset (the stats are the initial ones again)
C12_Witness ==
    /\ runs = 2
    /\ awaiting = "path"
    /\ stats = InitialStats
    /\ clicks = 1
    /\ grid[<<1, 1>>].isWall
    /\ startNode = DefaultStart
    /\ endNode = DefaultEnd
    /\ Len(path) > manhattanDistance(startNode, endNode) + 1

\* no flag, score or parent of a run is left on cell c of grid g
NoRunData(g, c) ==
    /\ ~g[c].isVisited
    /\ ~g[c].isPath
    /\ g[c].gScore = Infinity
    /\ g[c].hScore = 0
    /\ g[c].fScore = Infinity
    /\ g[c].parent = NULL

\* C13: a resetGrid step keeps isWall, isStart and isEnd of every cell and
\* both references, and leaves no run data on any cell; a clearAll step
\* leaves no cell flagged wall, start or end, no run data, and both
\* references null; and a run requested with both references null (the
\* state clearAll leaves) reports MissingEndpoints and changes no cell.
C13_ResetKeepsLayoutClearAllEmpties ==
    [][/\ resetGrid
            => /\ UNCHANGED <<startNode, endNode>>
               /\ \A c \in Cells :
                     /\ grid'[c].isWall = grid[c].isWall
                     /\ grid'[c].isStart = grid[c].isStart
                     /\ grid'[c].isEnd = grid[c].isEnd
                     /\ NoRunData(grid', c)
       /\ clearAll
            => /\ startNode' = NULL
               /\ endNode' = NULL
               /\ \A c \in Cells :
                     /\ ~grid'[c].isWall
                     /\ ~grid'[c].isStart
                     /\ ~grid'[c].isEnd
                     /\ NoRunData(grid', c)
       /\ startNode = NULL /\ endNode = NULL /\ (runDijkstra \/ runAStar)
            => /\ toast' = MissingEndpoints
               /\ ~isAnimating'
               /\ UNCHANGED grid]_vars

\* a grid with a wall and both endpoints whose one run completed (one wall
\* cannot cut this grid) and whose run data a reset has removed since
C13_Witness ==
    /\ runs = 1
    /\ clicks = 1
    /\ ~isAnimating
    /\ stats = InitialStats
    /\ startNode = DefaultStart
    /\ endNode = DefaultEnd
    /\ \E c \in Cells : grid[c].isWall
    /\ \A c \in Cells : NoRunData(grid, c)

\* the cells of the live grid that are walls
Walls == {c \in Cells : grid[c].isWall}

\* C14 (the case the claim singles out): with the wall tool, a press and a
\* release on one empty cell leave that cell a wall.  Stated for the first
\* gesture on the initial grid: the click that follows the release finds
\* one handled edit so far, the press of this gesture, which made the
\* release cell the only wall; after the click the cell is to be a wall.
C14_PressReleaseLeavesWall ==
    [][/\ handleClick
       /\ selectedTool = "wall"
       /\ ~isAnimating
       /\ runs = 0
       /\ clicks = 1
       /\ Walls = {pointer.at}
       => grid'[pointer.at].isWall]_vars

\* C15: with the timers served, a busy flag that is set is cleared again:
\* every state in which a run is busy is followed by an idle state.  (The
\* search loops themselves end within the step that starts the run; a run
\* that finds no path is idle at the end of that same step.)
C15_BusyEventuallyIdle ==
    isAnimating ~> (~isAnimating /\ awaiting = "none")

\* a run around two walls has gone through all its timers and is idle again
C15_Witness ==
    /\ runs = MaxRuns
    /\ clicks = 2
    /\ Cardinality(Walls) = 2
    /\ ~isAnimating
    /\ awaiting = "none"
    /\ IsCompleted
    /\ stats.nodesExplored >= 3

\* C16: every step that leaves a run busy (its start, each visited step,
\* each path step but the last, any user event meanwhile) leaves the stats
\* as they were; the step that clears the busy flag is the last path step,
\* and it sets the stats to (algorithm name, length of the visited list,
\* length of the path) and reports success; success is reported by no other
\* step, and the stats change otherwise only to the initial ones while idle.
C16_StatsAfterPath ==
    [][/\ isAnimating' => stats' = stats
       /\ RunCompletes
            => /\ awaiting = "path"
               /\ i + 1 = Len(path)
               /\ grid' = FlagPath(gridData, path[Len(path)])
               /\ stats' = [algorithm |-> algorithmName,
                            nodesExplored |-> Len(visited),
                            pathLength |-> Len(path)]
               /\ toast' = Completed(algorithmName)
       /\ toast' \in {Completed("Dijkstra"), Completed("A*")} => RunCompletes
       /\ stats' # stats
            => RunCompletes \/ (~isAnimating /\ stats' = InitialStats)]_vars

\* the last path timer of an A* run is pending, every other step emitted,
\* and the stats are still those of the Dijkstra run before it
C16_Witness ==
    /\ isAnimating
    /\ awaiting = "path"
    /\ i >= 1
    /\ i + 1 = Len(path)
    /\ algorithmName = "A*"
    /\ stats.algorithm = "Dijkstra"
    /\ stats.nodesExplored # Len(visited)

\* the pass from loop state before to loop state after appended a cell to
\* the visited-order list
Appends(before, after) ==
    Len(after.visitedInOrder) = Len(before.visitedInOrder) + 1

\* C17, for a Dijkstra run on grid g from startCell: every cell a pass
\* appends to the visited-order list has, in the state that pass selects it
\* from, a finite gScore equal to its true shortest distance from start;
\* along the final list gScore never decreases, no cell occurs twice, and
\* no cell of it is a wall, unreachable from start, or the end.
DijkstraSettles(g, startCell) ==
    LET passes == DijkstraPasses(DijkstraStart(g, startCell))
        last == passes[Len(passes)]
        list == last.visitedInOrder
    IN  /\ \A k \in 1 .. Len(passes) - 1 :
              Appends(passes[k], passes[k + 1])
                 => LET c == passes[k + 1].current
                        score == passes[k].gridData[c].gScore
                    IN  /\ c = passes[k + 1].visitedInOrder[
                                   Len(passes[k + 1].visitedInOrder)]
                        /\ score < Infinity
                        /\ score = TrueDistance(g, startCell, c)
        /\ \A k \in 1 .. Len(list) - 1 :
              last.gridData[list[k]].gScore
                 <= last.gridData[list[k + 1]].gScore
        /\ Cardinality(Range(list)) = Len(list)
        /\ \A k \in 1 .. Len(list) :
              /\ ~g[list[k]].isWall
              /\ ~g[list[k]].isEnd
              /\ TrueDistance(g, startCell, list[k]) # Unreachable

\* C17: every runDijkstra step satisfies DijkstraSettles on the grid it
\* runs on, and the list it hands to the sequencer is the loop's list.
C17_DijkstraSelectsSettled ==
    [][runDijkstra /\ HasEndpoints
        => /\ DijkstraSettles(grid, startNode)
           /\ awaiting' # "none"
                 => visited' = DijkstraSearch(grid, startNode,
                                              endNode).visited]_vars

\* a Dijkstra run in flight on a grid with a wall: five cells or more
\* visited, the last of them three steps or more from the start
C17_Witness ==
    /\ awaiting = "visited"
    /\ algorithmName = "Dijkstra"
    /\ Walls # {}
    /\ Len(visited) >= 5
    /\ gridData[visited[Len(visited)]].gScore >= 3
    /\ gridData[visited[Len(visited)]].gScore
          = TrueDistance(grid, startNode, visited[Len(visited)])

\* C18, for an A* run on grid g from startCell to endCell: the cell a pass
\* moves to the closed set was not in it before and has, in the state the
\* pass selects it from, a gScore equal to its true shortest distance from
\* start; in every loop state no cell is both in the open set and in the
\* closed set and the open set holds no cell twice; the visited-order list
\* holds exactly the closed cells, each once.
AStarCloses(g, startCell, endCell) ==
    LET passes == AStarPasses(AStarStart(g, startCell, endCell))
        last == passes[Len(passes)]
    IN  /\ \A k \in 1 .. Len(passes) - 1 :
              Appends(passes[k], passes[k + 1])
                 => LET c == passes[k + 1].current
                    IN  /\ c \notin passes[k].closedSet
                        /\ passes[k + 1].closedSet
                              = passes[k].closedSet \cup {c}
                        /\ passes[k].gridData[c].gScore
                              = TrueDistance(g, startCell, c)
                        /\ passes[k + 1].gridData[c].gScore
                              = passes[k].gridData[c].gScore
        /\ \A k \in 1 .. Len(passes) :
              /\ Range(passes[k].openSet) \cap passes[k].closedSet = {}
              /\ Cardinality(Range(passes[k].openSet))
                    = Len(passes[k].openSet)
              /\ Range(passes[k].visitedInOrder) = passes[k].closedSet
              /\ Cardinality(passes[k].closedSet)
                    = Len(passes[k].visitedInOrder)
        /\ \A c \in last.closedSet :
              last.gridData[c].gScore = TrueDistance(g, startCell, c)

\* C18: every runAStar step satisfies AStarCloses on the grid it runs on,
\* and the list it hands to the sequencer is the loop's list.
C18_AStarClosesSettled ==
    [][runAStar /\ HasEndpoints
        => /\ AStarCloses(grid, startNode, endNode)
           /\ awaiting' # "none"
                 => visited' = AStarSearch(grid, startNode,
                                           endNode).visited]_vars

\* an A* run in flight that closed five cells or more on its way round a
\* wall, one of them farther from the end than the start is
C18_Witness ==
    /\ awaiting = "visited"
    /\ algorithmName = "A*"
    /\ Walls # {}
    /\ Len(visited) >= 5
    /\ \E k \in 1 .. Len(visited) :
          manhattanDistance(visited[k], endNode)
             > manhattanDistance(startNode, endNode)

\* C19: in every reachable state, a cell flagged start or end is flagged
\* neither visited nor path (also when the start or the end is placed on a
\* cell that an earlier run flagged).
C19_EndpointsNeverFlaggedAnywhere ==
    \A c \in Cells :
        grid[c].isStart \/ grid[c].isEnd
           => ~grid[c].isVisited /\ ~grid[c].isPath

\* the cells grid g flags as start, as end
StartCells(g) == {c \in Cells : g[c].isStart}

EndCells(g) == {c \in Cells : g[c].isEnd}

\* reference ref (a cell or null) and the flagged cells agree: no cell is
\* flagged when the reference is null, and otherwise exactly its cell
Agree(ref, flagged) == flagged = (IF ref = NULL THEN {} ELSE {ref})

\* the references agree with the flags of the live grid and, during a
\* run, with those of the run's working grid
ReferencesAgree ==
    /\ Agree(startNode, StartCells(grid))
    /\ Agree(endNode, EndCells(grid))
    /\ awaiting # "none"
          => /\ Agree(startNode, StartCells(gridData))
             /\ Agree(endNode, EndCells(gridData))

\* C20: in every reachable state the start (end) reference is non-null
\* exactly when some cell is flagged start (end), and that cell is then the
\* one the reference names; so every run searches from a cell flagged
\* start, and a search that stops on a cell flagged end has stopped on the
\* cell of the end reference (the last cell of the path it hands over; the
\* first is the cell of the start reference).
C20_ReferencesAgreeWithFlags ==
    /\ []ReferencesAgree
    /\ [][(runDijkstra \/ runAStar) /\ HasEndpoints
            => /\ grid[startNode].isStart
               /\ grid[endNode].isEnd
               /\ awaiting' # "none"
                     => /\ path'[1] = startNode
                        /\ path'[Len(path')] = endNode
                        /\ gridData'[path'[Len(path')]].isEnd
                        /\ gridData'[startNode].gScore = 0]_vars

\* after Clear All only a start has been placed: one cell flagged start, at
\* the start reference, and neither an end reference nor an end flag
C20_Witness ==
    /\ startNode # NULL
    /\ endNode = NULL
    /\ StartCells(grid) = {startNode}
    /\ EndCells(grid) = {}
    /\ clicks = 1

====
